---- MODULE Spec2Model ----
(***************************************************************************)
(* Model of scripts/create_profit_margin_template.py: build_template       *)
(* builds a two-sheet workbook in memory (store discovery, lookup sheet,   *)
(* header, validation rules, per-row formats and formulas) and saves it.   *)
(*                                                                         *)
(* Strings of the source that are not ASCII are written in pinyin, since   *)
(* TLA+ strings are ASCII: "DianPuDangAn" is the store-archive directory,  *)
(* "ZiDian" the lookup sheet, "HangZhou-ShouDian" the default store.       *)
(* A formula string is a sequence of tokens: a literal piece of text       *)
(* (Lit) or a cell reference, a column letter followed by the              *)
(* interpolated row number (Ref).                                          *)
(***************************************************************************)
EXTENDS Integers, Sequences, FiniteSets, TLC

VARIABLES
    fs_store_dir,   \* <repo_root>/DianPuDangAn: [kind, entries]
    fs_missing,     \* number of ancestor directories of output_path that do not exist
    fs_creatable,   \* whether the missing ancestors can be created
    fs_writable,    \* whether the file at output_path can be written
    fs_file,        \* content of the file at output_path
    fs_created,     \* number of directories that mkdir has created
    pc,             \* position of build_template
    stores,         \* local: the store list
    wb,             \* local: the workbook under construction
    err,            \* the exception build_template propagated, or "none"
    run,            \* number of the current invocation
    saves           \* number of completed wb.save calls

vars == <<fs_store_dir, fs_missing, fs_creatable, fs_writable, fs_file, fs_created,
          pc, stores, wb, err, run, saves>>

fs == <<fs_store_dir, fs_missing, fs_creatable, fs_writable, fs_file, fs_created>>

(***************************************************************************)
(* Bounds of the model.                                                    *)
(***************************************************************************)
MaxEntries == 2     \* entries of the store-archive directory
NumNames == 2       \* distinct entry names
MaxMissing == 2     \* missing ancestor directories of the output path
MaxRuns == 2        \* invocations of build_template

(***************************************************************************)
(* Constants of the program.                                               *)
(***************************************************************************)
FirstRow == 2
LastRow == 1001
DataRows == FirstRow..LastRow

DefaultStore == "HangZhou-ShouDian"

NamePool == <<"HangZhou-ShouDian", "HangZhou-XiHu", "ShangHai-ErDian", "BeiJing-SanDian">>
Names == {NamePool[i] : i \in 1..NumNames}

categories == <<"ZhuShi", "XiaoChi", "YinPin", "QiTa">>

headers ==
    <<"RiQi", "MenDian", "ShangPinMingCheng", "SKU", "LeiBie", "GongYingShang",
      "JinHuoJia", "ChengBenShuiLv", "Yun/Bao/Sun", "ZongChengBen",
      "JianYiShouJia", "ShiJiShouJia", "ZheKouJinE",
      "PingTaiYongJinLv", "PingTaiYongJin",
      "ZhiFuShouXuFeiLv", "ZhiFuShouXuFei",
      "BaoZhuangFei", "PeiSongFei", "YunYingFenTan",
      "XiaoXiangShuiLv", "ShuiJin",
      "MaoLi", "MaoLiLv",
      "JingLi", "JingLiLv",
      "BeiZhu">>

widths ==
    (1 :> 12) @@ (2 :> 16) @@ (3 :> 20) @@ (4 :> 12) @@ (5 :> 12) @@ (6 :> 16) @@
    (7 :> 12) @@ (8 :> 12) @@ (9 :> 12) @@ (10 :> 12) @@
    (11 :> 12) @@ (12 :> 12) @@ (13 :> 12) @@
    (14 :> 12) @@ (15 :> 12) @@
    (16 :> 14) @@ (17 :> 14) @@
    (18 :> 10) @@ (19 :> 10) @@ (20 :> 12) @@
    (21 :> 12) @@ (22 :> 12) @@
    (23 :> 12) @@ (24 :> 10) @@
    (25 :> 12) @@ (26 :> 10) @@
    (27 :> 20)

currency_fmt == "\"Y\"#,##0.00"
percent_fmt == "0.00%"
date_fmt == "yyyy-mm-dd"

date_cols == {1}
currency_cols == {7, 9, 10, 11, 12, 13, 15, 17, 18, 19, 20, 22, 23, 25}
percent_cols == {8, 14, 16, 21, 24, 26}

(***************************************************************************)
(* openpyxl.utils.get_column_letter: 1 -> A, 26 -> Z, 27 -> AA.            *)
(***************************************************************************)
Alphabet ==
    <<"A", "B", "C", "D", "E", "F", "G", "H", "I", "J", "K", "L", "M",
      "N", "O", "P", "Q", "R", "S", "T", "U", "V", "W", "X", "Y", "Z">>

\* A variant that forgets the bijective base-26 offset: 27 -> AB.
get_column_letter_no_offset(idx) ==
    IF idx <= 26
    THEN Alphabet[idx]
    ELSE Alphabet[idx \div 26] \o Alphabet[(idx % 26) + 1]

RECURSIVE get_column_letter(_)
get_column_letter(idx) ==
    IF idx <= 26
    THEN Alphabet[idx]
    ELSE get_column_letter((idx - 1) \div 26) \o Alphabet[((idx - 1) % 26) + 1]

(***************************************************************************)
(* Formula strings of lines 109-123, as token sequences.                   *)
(***************************************************************************)
Lit(s) == [t |-> "lit", s |-> s]
Ref(c, r) == [t |-> "ref", col |-> c, row |-> r]

\* A variant whose last reference is to the row above.
formula_J_row_above(r) ==
    <<Lit("="), Ref("G", r), Lit("*(1+"), Ref("H", r), Lit(")+"), Ref("I", r - 1)>>

\* f"=G{r}*(1+H{r})+I{r}"
formula_J(r) ==
    <<Lit("="), Ref("G", r), Lit("*(1+"), Ref("H", r), Lit(")+"), Ref("I", r)>>

\* f"=(L{r}-M{r})*N{r}"
formula_O(r) ==
    <<Lit("="), Lit("("), Ref("L", r), Lit("-"), Ref("M", r), Lit(")*"), Ref("N", r)>>

\* f"=(L{r}-M{r})*P{r}"
formula_Q(r) ==
    <<Lit("="), Lit("("), Ref("L", r), Lit("-"), Ref("M", r), Lit(")*"), Ref("P", r)>>

\* f"=(L{r}-M{r})*U{r}"
formula_V(r) ==
    <<Lit("="), Lit("("), Ref("L", r), Lit("-"), Ref("M", r), Lit(")*"), Ref("U", r)>>

\* A variant that subtracts net profit (Y) where the code subtracts total cost (J).
formula_W_minus_Y(r) ==
    <<Lit("="), Lit("("), Ref("L", r), Lit("-"), Ref("M", r), Lit(")"),
      Lit("-"), Ref("O", r), Lit("-"), Ref("Q", r), Lit("-"), Ref("R", r),
      Lit("-"), Ref("S", r), Lit("-"), Ref("T", r), Lit("-"), Ref("Y", r)>>

\* f"=(L{r}-M{r})-O{r}-Q{r}-R{r}-S{r}-T{r}-J{r}"
formula_W(r) ==
    <<Lit("="), Lit("("), Ref("L", r), Lit("-"), Ref("M", r), Lit(")"),
      Lit("-"), Ref("O", r), Lit("-"), Ref("Q", r), Lit("-"), Ref("R", r),
      Lit("-"), Ref("S", r), Lit("-"), Ref("T", r), Lit("-"), Ref("J", r)>>

\* f"=IFERROR(W{r}/(L{r}-M{r}),"")": the f-string literal ends at the quote
\* after the comma, and the adjacent literal ")" is concatenated to it, so the
\* text is =IFERROR(W{r}/(L{r}-M{r}),) with nothing between "," and ")".
formula_X(r) ==
    <<Lit("="), Lit("IFERROR("), Ref("W", r), Lit("/("), Ref("L", r), Lit("-"),
      Ref("M", r), Lit(")"), Lit(",")>> \o <<Lit(")")>>

\* f"=W{r}-V{r}"
formula_Y(r) ==
    <<Lit("="), Ref("W", r), Lit("-"), Ref("V", r)>>

\* f"=IFERROR(Y{r}/(L{r}-M{r}),"")": as for column X.
formula_Z(r) ==
    <<Lit("="), Lit("IFERROR("), Ref("Y", r), Lit("/("), Ref("L", r), Lit("-"),
      Ref("M", r), Lit(")"), Lit(",")>> \o <<Lit(")")>>

\* A variant without the last ws.cell call.
formula_cols_without_Z == {10, 15, 17, 22, 23, 24, 25}

\* The columns that the ws.cell(row=r, column=c, value=...) calls of one
\* iteration of the loop write.
formula_cols == {10, 15, 17, 22, 23, 24, 25, 26}

\* The value that the call for column c writes.
formula(c, r) ==
    CASE c = 10 -> formula_J(r)
      [] c = 15 -> formula_O(r)
      [] c = 17 -> formula_Q(r)
      [] c = 22 -> formula_V(r)
      [] c = 23 -> formula_W(r)
      [] c = 24 -> formula_X(r)
      [] c = 25 -> formula_Y(r)
      [] c = 26 -> formula_Z(r)

\* The number_format assignments of one iteration of the loop.
row_formats ==
    [c \in date_cols \cup currency_cols \cup percent_cols |->
        \* a later assignment of the iteration overrides an earlier one
        IF c \in percent_cols THEN percent_fmt
        ELSE IF c \in currency_cols THEN currency_fmt
        ELSE date_fmt]

NoValue == <<>>
General == "General"

\* The cells of row r after one iteration of the loop: a cell exists once
\* ws.cell touched it, with the default value and number format until set.
touched_cols == DOMAIN row_formats \cup formula_cols

build_row(r) ==
    [c \in touched_cols |->
        [value |-> IF c \in formula_cols THEN formula(c, r) ELSE NoValue,
         number_format |-> IF c \in DOMAIN row_formats
                           THEN row_formats[c] ELSE General]]

(***************************************************************************)
(* The filesystem.                                                         *)
(***************************************************************************)
\* Listings of a directory: entries with distinct names, in enumeration order.
DirListings ==
    {s \in UNION {[1..n -> [name : Names, is_dir : BOOLEAN]] : n \in 0..MaxEntries} :
        \A i, j \in DOMAIN s : i # j => s[i].name # s[j].name}

StoreDirStates ==
    {[kind |-> "absent", entries |-> <<>>], [kind |-> "file", entries |-> <<>>]}
    \cup {[kind |-> "dir", entries |-> s] : s \in DirListings}

Absent == [kind |-> "absent"]
Stale == [kind |-> "stale"]     \* a file that some earlier writer left
Xlsx(book) == [kind |-> "xlsx", book |-> book]

(***************************************************************************)
(* The workbook.                                                           *)
(***************************************************************************)
\* A variant that opens the workbook found at the output path.
NewWorkbook_reopen ==
    IF fs_file.kind = "xlsx"
    THEN fs_file.book
    ELSE [sheetnames |-> <<"ShangPinLiRunLvMingXi">>, dict_ws |-> <<>>,
          header_row |-> <<>>, column_dimensions |-> <<>>, freeze_panes |-> "",
          auto_filter |-> <<>>, data_validations |-> <<>>, rows |-> <<>>]

\* Workbook(), wb.active and the title of lines 9-11.
NewWorkbook ==
    [sheetnames |-> <<"ShangPinLiRunLvMingXi">>,
     dict_ws |-> <<>>,              \* function (row, column) -> value
     header_row |-> <<>>,           \* row 1 of ws: column -> cell
     column_dimensions |-> <<>>,    \* column letter -> width
     freeze_panes |-> "",
     auto_filter |-> <<>>,
     data_validations |-> <<>>,
     rows |-> <<>>]                 \* rows 2.. of ws: row -> column -> cell

Discarded == [sheetnames |-> <<>>]

header_fill == [start_color |-> "FFD9D9D9", end_color |-> "FFD9D9D9", fill_type |-> "solid"]
header_font == [bold |-> TRUE]
center == [horizontal |-> "center", vertical |-> "center"]
thin == [style |-> "thin", color |-> "FFBBBBBB"]
border == [left |-> thin, right |-> thin, top |-> thin, bottom |-> thin]

\* Path.exists() of store_dir.
store_dir_exists == fs_store_dir.kind # "absent"

\* A variant without the is_dir() test.
discover_every_entry(entries) ==
    LET names == [i \in DOMAIN entries |-> entries[i].name]
    IN  IF names = <<>> THEN <<DefaultStore>> ELSE names

\* Lines 14-21 when iterdir() succeeds: the names of the entries that are
\* directories, in enumeration order, or the default store.
discover(entries) ==
    LET found == SelectSeq(entries, LAMBDA p : p.is_dir)
        names == [i \in DOMAIN found |-> found[i].name]
    IN  IF names = <<>> THEN <<DefaultStore>> ELSE names

\* enumerate(seq, start=2) written into one column of the lookup sheet.
write_column(column, title, seq) ==
    [cell \in {<<1, column>>} \cup {<<idx, column>> : idx \in 2..(Len(seq) + 1)} |->
        IF cell[1] = 1 THEN title ELSE seq[cell[1] - 1]]

\* A variant that forgets the title row.
store_last_row_no_title(ss) == Len(ss)

store_last_row(ss) == 1 + Len(ss)
cat_last_row == 1 + Len(categories)

\* f"=ZiDian!$A$2:$A${store_last_row}"
list_range(column, last) ==
    [sheet |-> "ZiDian", column |-> column, first_row |-> 2, last_row |-> last]

DataValidation(formula1, sqref) ==
    [type |-> "list", formula1 |-> formula1, allow_blank |-> TRUE, sqref |-> sqref]

(***************************************************************************)
(* build_template, one action per step of the function.                    *)
(***************************************************************************)
Init ==
    /\ fs_store_dir \in StoreDirStates
    /\ fs_missing \in 0..MaxMissing
    /\ fs_creatable \in BOOLEAN
    /\ fs_missing = 0 => fs_creatable
    /\ fs_writable \in BOOLEAN
    /\ fs_file \in IF fs_missing = 0 THEN {Absent, Stale} ELSE {Absent}
    /\ fs_created = 0
    /\ pc = "discover"
    /\ stores = <<>>
    /\ wb = NewWorkbook
    /\ err = "none"
    /\ run = 1
    /\ saves = 0

\* An exception leaves build_template: the locals are gone.
Raise(e) ==
    /\ pc' = "failed"
    /\ err' = e
    /\ stores' = <<>>
    /\ wb' = Discarded

\* Lines 14-21.  iterdir() of a path that exists and is not a directory
\* raises NotADirectoryError, which nothing catches.
StoreDiscovery ==
    /\ pc = "discover"
    /\ IF store_dir_exists /\ fs_store_dir.kind # "dir"
       THEN Raise("NotADirectoryError")
       ELSE /\ stores' = discover(IF store_dir_exists THEN fs_store_dir.entries ELSE <<>>)
            /\ pc' = "lookup"
            /\ UNCHANGED <<wb, err>>
    /\ UNCHANGED <<fs, run, saves>>

\* Lines 24-32.
PopulateLookup ==
    /\ pc = "lookup"
    /\ wb' = [wb EXCEPT
                !.sheetnames = Append(@, "ZiDian"),
                !.dict_ws = write_column(1, "MenDianLieBiao", stores)
                            @@ write_column(2, "LeiBieLieBiao", categories)]
    /\ pc' = "header"
    /\ UNCHANGED <<fs, stores, err, run, saves>>

\* Lines 35-82.
HeaderAndStyle ==
    /\ pc = "header"
    /\ wb' = [wb EXCEPT
                !.header_row =
                    [col_idx \in 1..Len(headers) |->
                        [value |-> headers[col_idx], fill |-> header_fill,
                         font |-> header_font, alignment |-> center,
                         border |-> border]],
                !.column_dimensions =
                    [l \in {get_column_letter(idx) : idx \in DOMAIN widths} |->
                        widths[CHOOSE idx \in DOMAIN widths : get_column_letter(idx) = l]],
                !.freeze_panes = "A2",
                !.auto_filter =
                    [first_col |-> "A", first_row |-> 1,
                     last_col |-> get_column_letter(Len(headers)), last_row |-> 1]]
    /\ pc' = "validation"
    /\ UNCHANGED <<fs, stores, err, run, saves>>

\* Lines 85-92.
Validation ==
    /\ pc = "validation"
    /\ LET dv_store == DataValidation(list_range("A", store_last_row(stores)),
                                      [column |-> "B", first_row |-> 2, last_row |-> 1001])
           dv_cat == DataValidation(list_range("B", cat_last_row),
                                    [column |-> "E", first_row |-> 2, last_row |-> 1001])
       IN  wb' = [wb EXCEPT !.data_validations = <<dv_store, dv_cat>>]
    /\ pc' = "rows"
    /\ UNCHANGED <<fs, stores, err, run, saves>>

\* Lines 100-123: the whole loop over range(2, 1002).
FillRows ==
    /\ pc = "rows"
    /\ wb' = [wb EXCEPT !.rows = [r \in DataRows |-> build_row(r)]]
    /\ pc' = "mkdir"
    /\ UNCHANGED <<fs, stores, err, run, saves>>

\* A variant without parents=True: only the last directory can be created.
Mkdir_no_parents ==
    /\ pc = "mkdir"
    /\ IF fs_missing = 0 \/ (fs_creatable /\ fs_missing = 1)
       THEN /\ fs_missing' = 0
            /\ fs_created' = fs_created + fs_missing
            /\ pc' = "save"
            /\ UNCHANGED <<stores, wb, err>>
       ELSE /\ Raise("OSError:mkdir")
            /\ UNCHANGED <<fs_missing, fs_created>>
    /\ UNCHANGED <<fs_store_dir, fs_creatable, fs_writable, fs_file, run, saves>>

\* Line 126: output_path.parent.mkdir(parents=True, exist_ok=True).
Mkdir ==
    /\ pc = "mkdir"
    /\ IF fs_missing = 0 \/ fs_creatable
       THEN /\ fs_missing' = 0
            /\ fs_created' = fs_created + fs_missing
            /\ pc' = "save"
            /\ UNCHANGED <<stores, wb, err>>
       ELSE /\ Raise("OSError:mkdir")
            /\ UNCHANGED <<fs_missing, fs_created>>
    /\ UNCHANGED <<fs_store_dir, fs_creatable, fs_writable, fs_file, run, saves>>

\* Line 127: wb.save(output_path), then the return.
Save ==
    /\ pc = "save"
    /\ IF fs_missing = 0 /\ fs_writable
       THEN /\ fs_file' = Xlsx(wb)
            /\ saves' = saves + 1
            /\ pc' = "done"
            /\ stores' = <<>>
            /\ wb' = Discarded
            /\ UNCHANGED err
       ELSE /\ Raise("OSError:save")
            /\ UNCHANGED <<fs_file, saves>>
    /\ UNCHANGED <<fs_store_dir, fs_missing, fs_creatable, fs_writable, fs_created, run>>

\* build_template is called again with the same arguments: lines 9-11.
Invoke ==
    /\ pc \in {"done", "failed"}
    /\ run < MaxRuns
    /\ run' = run + 1
    /\ pc' = "discover"
    /\ stores' = <<>>
    /\ wb' = NewWorkbook
    /\ err' = "none"
    /\ UNCHANGED <<fs, saves>>

Next ==
    \/ StoreDiscovery
    \/ PopulateLookup
    \/ HeaderAndStyle
    \/ Validation
    \/ FillRows
    \/ Mkdir
    \/ Save

Spec == Init /\ [][Next]_vars

\* The same, with build_template called up to MaxRuns times.
NextRerun ==
    \/ Next
    \/ Invoke

SpecRerun == Init /\ [][NextRerun]_vars

(***************************************************************************)
(* Properties.                                                             *)
(***************************************************************************)
ColumnLetters27 ==
    {"A", "B", "C", "D", "E", "F", "G", "H", "I", "J", "K", "L", "M",
     "N", "O", "P", "Q", "R", "S", "T", "U", "V", "W", "X", "Y", "Z", "AA"}

\* The rows of one column of the lookup sheet that hold a value.
PopulatedRows(book, column) ==
    {cell[1] : cell \in {x \in DOMAIN book.dict_ws : x[2] = column}}

LookupWritten == pc \in {"header", "validation", "rows", "mkdir", "save"}
ValidationWritten == pc \in {"rows", "mkdir", "save"}
RowsWritten == pc = "mkdir"

IsFormula(v) == v # NoValue /\ v[1] = Lit("=")
RefsOf(v) == {v[k] : k \in {i \in DOMAIN v : v[i].t = "ref"}}

\* C1: the store column of the lookup sheet (column A from row 2 down) holds
\* exactly the names of the subdirectories of the store-archive directory, in
\* enumeration order and without any entry that is not a directory, when the
\* directory has at least one subdirectory; it holds exactly the default
\* store name when the directory is absent or empty.
C1_StoreColumn ==
    LookupWritten =>
        LET rows == PopulatedRows(wb, 1) \ {1}
            n == Cardinality(rows)
            entries == fs_store_dir.entries
            subdirs == {i \in DOMAIN entries : entries[i].is_dir}
        IN  /\ wb.dict_ws[<<1, 1>>] = "MenDianLieBiao"
            /\ rows = 2..(n + 1)
            /\ (fs_store_dir.kind = "dir" /\ subdirs # {}) =>
                  /\ n = Cardinality(subdirs)
                  /\ \A i \in subdirs :
                        wb.dict_ws[<<1 + Cardinality({j \in subdirs : j <= i}), 1>>]
                            = entries[i].name
            /\ (fs_store_dir.kind = "absent"
                    \/ (fs_store_dir.kind = "dir" /\ entries = <<>>)) =>
                  /\ n = 1
                  /\ wb.dict_ws[<<2, 1>>] = DefaultStore

\* A directory whose listing is a file followed by a subdirectory: the store
\* column holds the one subdirectory.
C1_Witness ==
    /\ LookupWritten
    /\ fs_store_dir.kind = "dir"
    /\ Len(fs_store_dir.entries) = 2
    /\ ~fs_store_dir.entries[1].is_dir
    /\ fs_store_dir.entries[2].is_dir
    /\ fs_store_dir.entries[2].name # DefaultStore
    /\ PopulatedRows(wb, 1) = {1, 2}
    /\ wb.dict_ws[<<2, 1>>] = fs_store_dir.entries[2].name

\* C2: the source range of the store dropdown is rows 2..(1 + number of store
\* names written) of lookup column A and that of the category dropdown is
\* rows 2..5 of lookup column B; each covers every populated row below the
\* title and no other row.
C2_ValidationRanges ==
    ValidationWritten =>
        LET dv_store == wb.data_validations[1].formula1
            dv_cat == wb.data_validations[2].formula1
            store_rows == PopulatedRows(wb, 1) \ {1}
            cat_rows == PopulatedRows(wb, 2) \ {1}
        IN  /\ dv_store.sheet = wb.sheetnames[2]
            /\ dv_store.column = get_column_letter(1)
            /\ dv_store.first_row = 2
            /\ dv_store.last_row = 1 + Cardinality(store_rows)
            /\ dv_store.first_row..dv_store.last_row = store_rows
            /\ dv_cat.sheet = wb.sheetnames[2]
            /\ dv_cat.column = get_column_letter(2)
            /\ dv_cat.first_row = 2
            /\ dv_cat.last_row = 5
            /\ dv_cat.first_row..dv_cat.last_row = cat_rows

\* Two stores were discovered and the store range ends at row 3.
C2_Witness ==
    /\ ValidationWritten
    /\ Len(stores) = 2
    /\ wb.data_validations[1].formula1.last_row = 3
    /\ PopulatedRows(wb, 1) = {1, 2, 3}

\* The second argument of the IFERROR call of a ratio formula: the tokens
\* between the comma that ends the first argument and the closing parenthesis.
IfErrorFallback(v) ==
    LET comma == CHOOSE k \in DOMAIN v : v[k] = Lit(",")
    IN  SubSeq(v, comma + 1, Len(v) - 1)

\* C3: in every row 2..1001 the gross-margin-ratio formula (column X) and the
\* net-margin-ratio formula (column Z) carry an explicit empty string as the
\* second argument of IFERROR, so that they are blank when L - M is zero.
C3_EmptyStringFallback ==
    RowsWritten =>
        \A r \in DataRows : \A c \in {24, 26} :
            IfErrorFallback(wb.rows[r][c].value) = <<Lit("\"\"")>>

\* C4: every cell reference of every formula of row r has row index r, and the
\* total-cost formula of column J references exactly G, H and I of its row.
C4_SameRowReferences ==
    RowsWritten =>
        \A r \in DataRows :
            /\ \A c \in DOMAIN wb.rows[r] :
                    \A ref \in RefsOf(wb.rows[r][c].value) : ref.row = r
            /\ RefsOf(wb.rows[r][10].value) = {Ref("G", r), Ref("H", r), Ref("I", r)}

\* The first and the last row hold their formulas.
C4_Witness ==
    /\ RowsWritten
    /\ DOMAIN wb.rows = 2..1001
    /\ Ref("G", 2) \in RefsOf(wb.rows[2][10].value)
    /\ Ref("J", 1001) \in RefsOf(wb.rows[1001][23].value)

\* C5: store discovery never raises: build_template fails only when the
\* parent directory cannot be created or the file cannot be written.
C5_OnlyPersistenceFails ==
    err \in {"none", "OSError:mkdir", "OSError:save"}

FormulaColsOf(row) == {c \in DOMAIN row : IsFormula(row[c].value)}

\* C6 as stated: in every row 2..1001 exactly ten columns receive a formula.
C6_TenFormulaColumns ==
    RowsWritten =>
        \A r \in DataRows : Cardinality(FormulaColsOf(wb.rows[r])) = 10

\* C6 as amended: in every row 2..1001 exactly eight columns receive a
\* formula, a string beginning with "=": those titled total cost, platform
\* commission, payment fee, tax, gross profit, gross margin ratio, net profit
\* and net margin ratio; no other cell of the row receives a value.
C6_EightFormulaColumns ==
    RowsWritten =>
        /\ \A r \in DataRows :
              /\ Cardinality(FormulaColsOf(wb.rows[r])) = 8
              /\ \A c \in DOMAIN wb.rows[r] :
                    c \notin FormulaColsOf(wb.rows[r]) => wb.rows[r][c].value = NoValue
              /\ {wb.header_row[c].value : c \in FormulaColsOf(wb.rows[r])} =
                    {"ZongChengBen", "PingTaiYongJin", "ZhiFuShouXuFei", "ShuiJin",
                     "MaoLi", "MaoLiLv", "JingLi", "JingLiLv"}

\* The rows are written and row 1001 has formulas in J and in Z.
C6_Witness ==
    /\ RowsWritten
    /\ IsFormula(wb.rows[1001][10].value)
    /\ IsFormula(wb.rows[1001][26].value)
    /\ ~IsFormula(wb.rows[1001][7].value)

C8_SameContent ==
    [][fs_file.kind = "xlsx" => fs_file' = fs_file]_vars

\* The second run has overwritten the file of the first.
C8_Witness ==
    /\ run = 2
    /\ saves = 2
    /\ pc = "done"
    /\ fs_file.kind = "xlsx"

HeaderWritten == pc \in {"validation", "rows", "mkdir", "save"}

\* C9: one 27-column layout: the header row has the 27 titles in order, the
\* widths have the keys 1..27, the auto-filter spans A1:AA1, the date,
\* currency and percentage column sets are pairwise disjoint subsets of
\* 1..27, and every formula column and every referenced column is in 1..27.
C9_Layout ==
    /\ HeaderWritten =>
          /\ DOMAIN wb.header_row = 1..27
          /\ [c \in 1..27 |-> wb.header_row[c].value] = headers
          /\ DOMAIN widths = 1..27
          /\ DOMAIN wb.column_dimensions = ColumnLetters27
          /\ wb.auto_filter = [first_col |-> "A", first_row |-> 1,
                               last_col |-> "AA", last_row |-> 1]
    /\ RowsWritten =>
          \A r \in DataRows :
            LET row == wb.rows[r]
                with(fmt) == {c \in DOMAIN row : row[c].number_format = fmt}
            IN  /\ DOMAIN row \subseteq 1..27
                /\ with(date_fmt) = date_cols
                /\ with(currency_fmt) = currency_cols
                /\ with(percent_fmt) = percent_cols
                /\ with(General) = {}
                /\ \A c \in DOMAIN row : \A ref \in RefsOf(row[c].value) :
                        ref.col \in ColumnLetters27

\* The layout is complete: column 27 has its title and its width, the filter
\* ends at AA and the rows are formatted.
C9_Witness ==
    /\ RowsWritten
    /\ wb.header_row[27].value = "BeiZhu"
    /\ wb.column_dimensions["AA"] = 20
    /\ wb.auto_filter.last_col = "AA"
    /\ wb.rows[1001][26].number_format = percent_fmt

\* The columns that a formula cell of a row depends on, directly (n = 0) or
\* through at most n other formula cells of the row.
RECURSIVE DependsOn(_, _, _, _)
DependsOn(row, r, c, n) ==
    LET direct == {ref.col : ref \in {x \in RefsOf(row[c].value) : x.row = r}}
    IN  IF n = 0
        THEN direct
        ELSE direct \cup
             UNION {DependsOn(row, r, d, n - 1) :
                        d \in {x \in FormulaColsOf(row) : get_column_letter(x) \in direct}}

InputLetters == {"G", "H", "I", "L", "M", "N", "P", "R", "S", "T", "U"}

\* C10: within a row no formula cell depends on itself, directly or through
\* other formula cells of the row, and what a formula cell depends on besides
\* formula cells are input columns among G, H, I, L, M, N, P, R, S, T, U.
C10_Acyclic ==
    RowsWritten =>
        \A r \in DataRows :
            LET row == wb.rows[r]
                fcols == FormulaColsOf(row)
                letters == {get_column_letter(c) : c \in fcols}
            IN  \A c \in fcols :
                    LET deps == DependsOn(row, r, c, Cardinality(fcols))
                    IN  /\ get_column_letter(c) \notin deps
                        /\ deps \ letters \subseteq InputLetters
                        /\ deps \ letters # {}

\* Net margin ratio (Z) depends on total cost (J) through Y and W.
C10_Witness ==
    /\ RowsWritten
    /\ "J" \in DependsOn(wb.rows[1001], 1001, 26, 8)
    /\ "G" \in DependsOn(wb.rows[1001], 1001, 26, 8)
    /\ "J" \notin DependsOn(wb.rows[1001], 1001, 26, 1)

====
